---------------------------- MODULE Spec2Model ----------------------------
(***************************************************************************)
(* ApiKeyManager (api-key-manager) and the settings routes that drive it.  *)
(*                                                                         *)
(* Strings are sequences of one-character strings, so that trim() and the  *)
(* falsy test on '' are computed rather than assumed.  Credential ids are  *)
(* natural numbers handed out in creation order; the Map's insertion order *)
(* is the order of the sequence apiKeys.  lastChecked and dailyUsage are   *)
(* written but never read by the manager and are left out.                 *)
(*                                                                         *)
(* Each manager method is an operator from the manager's fields to its     *)
(* fields after the call (and the result); each route or caller is an      *)
(* action applying it.  The variable last holds the call the last step     *)
(* made, so that a property of one operation is an action property         *)
(* relating the fields before the step to the fields and result after it.  *)
(* The specifications of the manager differ only in the set watch of       *)
(* operations whose calls are recorded.                                    *)
(*                                                                         *)
(* makeYouTubeApiRequest (req) and extractRealTranscript (tx) are          *)
(* processes with one step per awaited external call; the answer of the    *)
(* call is chosen in the step, and everything the code does up to the next *)
(* await belongs to it.  Transcript texts are sequences of characters and  *)
(* the replace / trim chain of each path is computed on them.              *)
(***************************************************************************)
EXTENDS Integers, Sequences, FiniteSets, TLC

(* ------------------------------ bounds -------------------------------- *)
\* number of YOUTUBE_API_KEY* environment variables that are set at start
MaxEnvKeys == 2
\* number of credentials ever created (constructor + addKey)
MaxIds == 3

(* ------------------------------ strings ------------------------------- *)
\* secrets found in the environment (truthy, hence non-empty)
EnvSecrets == { <<"a">>, <<"b">> }
\* the name / key fields of a request body arriving at POST /api-keys
RawNames == { <<>>, <<" ">>, <<"n">>, <<" ", "n">> }
RawKeys == { <<>>, <<" ">>, <<"a">>, <<" ", "b">> }
\* names as a well-behaved client sends them (or leaves them out)
PlainNames == { <<>>, <<"n">> }
\* secrets a caller of markKeyAsExceeded may hold
SentSecrets == { <<"a">>, <<"b">> }

RECURSIVE trimStart(_)
trimStart(s) ==
    IF s = <<>> THEN s
    ELSE IF Head(s) = " " THEN trimStart(Tail(s)) ELSE s

RECURSIVE trimEnd(_)
trimEnd(s) ==
    IF s = <<>> THEN s
    ELSE IF s[Len(s)] = " " THEN trimEnd(SubSeq(s, 1, Len(s) - 1)) ELSE s

\* String.prototype.trim
trim(s) == trimEnd(trimStart(s))

\* JavaScript truthiness of a string
truthy(s) == s # <<>>

(* ------------------------------- state -------------------------------- *)
VARIABLES
    apiKeys,        \* Map<string, ApiKey> in insertion order
    currentKeyId,   \* string | null
    nextId,         \* the next id addKey generates
    watch,          \* the operations whose calls are recorded in last
    last,           \* the call made by the last step, if it is watched
    req,            \* one makeYouTubeApiRequest call and where it stands
    tx,             \* one extractRealTranscript call and where it stands
    norm,           \* a text and the number of normalisations applied to it
    req2,           \* a second makeYouTubeApiRequest call, made meanwhile
    probe           \* a testKey call awaiting its fetch

vars ==
    << apiKeys, currentKeyId, nextId, watch, last, req, tx, norm, req2, probe >>

\* currentKeyId === null
NoKey == 0
\* getActiveKey's null; '' || null is null, so no string result is empty
null == <<>>

ApiKey(id, name, key, isActive) ==
    [ id |-> id, name |-> name, key |-> key,
      isActive |-> isActive, quotaExceeded |-> FALSE ]

\* the manager's two fields as one value
Mgr(keys, cur) == [ keys |-> keys, cur |-> cur ]

Ids(keys) == { keys[i].id : i \in 1..Len(keys) }
has(keys, id) == id \in Ids(keys)
IndexOf(keys, id) == CHOOSE i \in 1..Len(keys) : keys[i].id = id
get(keys, id) == keys[IndexOf(keys, id)]

\* assignment to one field of the entry with the given id, if it is there
setIsActive(keys, id, b) ==
    [ i \in 1..Len(keys) |->
        IF keys[i].id = id THEN [ keys[i] EXCEPT !.isActive = b ] ELSE keys[i] ]

setQuotaExceeded(keys, id, b) ==
    [ i \in 1..Len(keys) |->
        IF keys[i].id = id THEN [ keys[i] EXCEPT !.quotaExceeded = b ] ELSE keys[i] ]

delete(keys, id) ==
    LET keep == { i \in 1..Len(keys) : keys[i].id # id }
        RECURSIVE build(_)
        build(i) == IF i > Len(keys) THEN <<>>
                    ELSE IF i \in keep THEN <<keys[i]>> \o build(i + 1)
                    ELSE build(i + 1)
    IN  build(1)

(* --------------------------- ApiKeyManager ---------------------------- *)
getActiveKey(m) ==
    IF m.cur = NoKey THEN null
    ELSE IF ~has(m.keys, m.cur) THEN null
    ELSE IF get(m.keys, m.cur).quotaExceeded THEN null
    ELSE IF truthy(get(m.keys, m.cur).key) THEN get(m.keys, m.cur).key
    ELSE null

\* "Deactivate current key" block shared by setActiveKey and
\* switchToNextAvailableKey
deactivateCurrent(m) ==
    IF m.cur # NoKey /\ has(m.keys, m.cur)
    THEN setIsActive(m.keys, m.cur, FALSE)
    ELSE m.keys

\* setActiveKey without the quotaExceeded test on the target
setActiveKeyAnyQuota(m, id) ==
    IF ~has(m.keys, id)
    THEN [ m |-> m, ret |-> FALSE ]
    ELSE [ m |-> Mgr(setIsActive(deactivateCurrent(m), id, TRUE), id),
           ret |-> TRUE ]

setActiveKey(m, id) ==
    IF ~has(m.keys, id) \/ get(m.keys, id).quotaExceeded
    THEN [ m |-> m, ret |-> FALSE ]
    ELSE [ m |-> Mgr(setIsActive(deactivateCurrent(m), id, TRUE), id),
           ret |-> TRUE ]

availableKeys(keys) == { i \in 1..Len(keys) : ~keys[i].quotaExceeded }

switchToNextAvailableKey(m) ==
    IF availableKeys(m.keys) = {}
    THEN [ m |-> Mgr(m.keys, NoKey), ret |-> FALSE ]
    ELSE LET first == CHOOSE i \in availableKeys(m.keys) :
                          \A j \in availableKeys(m.keys) : i <= j
             nextId0 == m.keys[first].id
         IN  [ m |-> Mgr(setIsActive(deactivateCurrent(m), nextId0, TRUE), nextId0),
               ret |-> TRUE ]

\* the same, marking whichever credential is current
markKeyAsExceededCurrent(m, keyValue) ==
    IF m.cur = NoKey THEN m
    ELSE switchToNextAvailableKey(
             Mgr(setQuotaExceeded(m.keys, m.cur, TRUE), m.cur)).m

markKeyAsExceeded(m, keyValue) ==
    LET hits == { i \in 1..Len(m.keys) : m.keys[i].key = keyValue }
    IN  IF hits = {} THEN m
        ELSE LET i == CHOOSE h \in hits : \A j \in hits : h <= j
                 id == m.keys[i].id
                 marked == Mgr(setQuotaExceeded(m.keys, id, TRUE), m.cur)
             IN  IF id = m.cur THEN switchToNextAvailableKey(marked).m
                 ELSE marked

\* addKey activating the new credential only when currentKeyId is null
addKeyWhenNoCurrent(m, name, key, id) ==
    LET added == Mgr(Append(m.keys, ApiKey(id, name, key, FALSE)), m.cur)
    IN  IF added.cur = NoKey
        THEN setActiveKey(added, id).m
        ELSE added

addKey(m, name, key, id) ==
    LET added == Mgr(Append(m.keys, ApiKey(id, name, key, FALSE)), m.cur)
    IN  IF added.cur = NoKey \/ getActiveKey(added) = null
        THEN setActiveKey(added, id).m
        ELSE added

\* removeKey without the switch to another key when the active one goes
removeKeyKeepsPointer(m, id) ==
    IF ~has(m.keys, id) THEN [ m |-> m, ret |-> FALSE ]
    ELSE [ m |-> Mgr(delete(m.keys, id), m.cur), ret |-> TRUE ]

removeKey(m, id) ==
    IF ~has(m.keys, id) THEN [ m |-> m, ret |-> FALSE ]
    ELSE LET removed == Mgr(delete(m.keys, id), m.cur)
         IN  [ m |-> IF m.cur = id THEN switchToNextAvailableKey(removed).m
                     ELSE removed,
               ret |-> TRUE ]

resetDailyQuotas(m) ==
    LET cleared == Mgr([ i \in 1..Len(m.keys) |->
                           [ m.keys[i] EXCEPT !.quotaExceeded = FALSE ] ], m.cur)
    IN  IF cleared.cur = NoKey THEN switchToNextAvailableKey(cleared).m
        ELSE cleared

\* what the fetch inside testKey can come back with: a body without error,
\* an error body with reason quotaExceeded, an error body with another
\* reason, or a rejected fetch / unparsable body (the catch block)
TestOutcomes == { "success", "quotaExceeded", "otherError", "network" }

\* testKey with the awaited fetch answered before any other call runs; a
\* response handled after other calls writes the same flag of the same entry
\* the same, marking the credential on every error body
testKeyMarksOnAnyError(m, id, outcome) ==
    IF ~has(m.keys, id) THEN [ m |-> m, ret |-> FALSE ]
    ELSE IF outcome \in { "quotaExceeded", "otherError" }
    THEN [ m |-> Mgr(setQuotaExceeded(m.keys, id, TRUE), m.cur), ret |-> FALSE ]
    ELSE IF outcome = "success"
    THEN [ m |-> Mgr(setQuotaExceeded(m.keys, id, FALSE), m.cur), ret |-> TRUE ]
    ELSE [ m |-> m, ret |-> FALSE ]

testKey(m, id, outcome) ==
    IF ~has(m.keys, id) THEN [ m |-> m, ret |-> FALSE ]
    ELSE IF outcome = "quotaExceeded"
    THEN [ m |-> Mgr(setQuotaExceeded(m.keys, id, TRUE), m.cur), ret |-> FALSE ]
    ELSE IF outcome = "otherError" THEN [ m |-> m, ret |-> FALSE ]
    ELSE IF outcome = "success"
    THEN [ m |-> Mgr(setQuotaExceeded(m.keys, id, FALSE), m.cur), ret |-> TRUE ]
    ELSE [ m |-> m, ret |-> FALSE ]

\* new ApiKeyManager() followed by the start-up resetDailyQuotas()
constructor(env) ==
    resetDailyQuotas(
        Mgr([ i \in 1..Len(env) |-> ApiKey(i, <<"n">>, env[i], i = 1) ],
            IF Len(env) = 0 THEN NoKey ELSE 1))

(* ------------------- GET /api/settings/api-keys ----------------------- *)
\* key.key.substring(0, 10)
PrefixLength == 10
\* key.key.substring(key.key.length - 4)
SuffixLength == 4

\* String.prototype.substring: both indices are clamped to 0..length and
\* swapped when the first is the larger
clamp(n, len) == IF n < 0 THEN 0 ELSE IF n > len THEN len ELSE n

substring(s, start, end) ==
    LET a == clamp(start, Len(s))
        b == clamp(end, Len(s))
    IN  IF a <= b THEN SubSeq(s, a + 1, b) ELSE SubSeq(s, b + 1, a)

\* `${key.key.substring(0, 10)}...${key.key.substring(key.key.length - 4)}`
maskedKey(key) ==
    substring(key, 0, PrefixLength) \o << ".", ".", "." >>
        \o substring(key, Len(key) - SuffixLength, Len(key))

\* Array.from(this.apiKeys.values()): the entries in insertion order
getAllKeys(m) == m.keys

\* the apiKeys array of the response
listApiKeys(m) ==
    [ i \in DOMAIN getAllKeys(m) |->
        [ id |-> getAllKeys(m)[i].id,
          name |-> getAllKeys(m)[i].name,
          key |-> maskedKey(getAllKeys(m)[i].key),
          isActive |-> getAllKeys(m)[i].isActive,
          quotaExceeded |-> getAllKeys(m)[i].quotaExceeded ] ]

(* ----------------------- makeYouTubeApiRequest ------------------------ *)
\* retryCount < 2
MaxRetries == 2
\* data.error.code === 403
Forbidden == 403

\* the parsed response body: data.error, its reason and its code
Response(hasError, reason, code) ==
    [ error |-> hasError, reason |-> reason, code |-> code ]

\* bodies the external API answers with; a rejected fetch or a body that is
\* no JSON is the string "rejected"
Responses ==
    { Response(FALSE, "", 200),
      Response(TRUE, "quotaExceeded", Forbidden),
      Response(TRUE, "forbidden", Forbidden),
      Response(TRUE, "badRequest", 400) }

\* a call: pc is "idle" before it, "fetch" while a fetch is awaited, "done"
\* once it has returned or thrown; sent lists the secrets of its fetches,
\* data is the body parsed last, onlyQuota says that every body so far had
\* the reason quotaExceeded, result is what the caller gets
NoData == Response(FALSE, "", 0)
ReqIdle ==
    [ pc |-> "idle", key |-> null, retryCount |-> 0, sent |-> <<>>,
      data |-> NoData, onlyQuota |-> TRUE, result |-> "none" ]

\* a probe: pc is "idle" or "fetch", id the credential testKey looked up
\* before the fetch, quotaExceeded that credential's flag at that moment
Probe(pc, id, quotaExceeded) ==
    [ pc |-> pc, id |-> id, quotaExceeded |-> quotaExceeded ]
NoProbe == Probe("idle", NoKey, FALSE)

\* how the call ends: with data, or with one of the four kinds of exception
ReqDone(r, result) == [ r EXCEPT !.pc = "done", !.result = result ]

\* makeYouTubeApiRequest(url, params, retryCount) up to the awaited fetch
makeYouTubeApiRequest(m, r, retryCount) ==
    IF getActiveKey(m) = null
    THEN ReqDone(r, "noKeyError")
    ELSE [ r EXCEPT !.pc = "fetch",
                    !.key = getActiveKey(m),
                    !.retryCount = retryCount,
                    !.sent = Append(r.sent, getActiveKey(m)) ]

\* ... and from the parsed response on, the retry's call included
\* the same with retryCount < 3
handleResponseOneMoreRetry(m, r, resp) ==
    LET got == [ r EXCEPT !.data = resp,
                          !.onlyQuota = @ /\ resp.reason = "quotaExceeded" ]
    IN  IF ~resp.error THEN [ m |-> m, r |-> ReqDone(got, "data") ]
        ELSE IF (resp.reason = "quotaExceeded" \/ resp.code = Forbidden)
                /\ r.retryCount < MaxRetries + 1
        THEN LET marked == markKeyAsExceeded(m, r.key)
                 switched == switchToNextAvailableKey(marked)
             IN  IF switched.ret
                 THEN [ m |-> switched.m,
                        r |-> makeYouTubeApiRequest(switched.m, got, r.retryCount + 1) ]
                 ELSE [ m |-> switched.m, r |-> ReqDone(got, "allExceededError") ]
        ELSE [ m |-> m, r |-> ReqDone(got, "apiError") ]

handleResponse(m, r, resp) ==
    LET got == [ r EXCEPT !.data = resp,
                          !.onlyQuota = @ /\ resp.reason = "quotaExceeded" ]
    IN  IF ~resp.error THEN [ m |-> m, r |-> ReqDone(got, "data") ]
        ELSE IF (resp.reason = "quotaExceeded" \/ resp.code = Forbidden)
                /\ r.retryCount < MaxRetries
        THEN LET marked == markKeyAsExceeded(m, r.key)
                 switched == switchToNextAvailableKey(marked)
             IN  IF switched.ret
                 THEN [ m |-> switched.m,
                        r |-> makeYouTubeApiRequest(switched.m, got, r.retryCount + 1) ]
                 ELSE [ m |-> switched.m, r |-> ReqDone(got, "allExceededError") ]
        ELSE [ m |-> m, r |-> ReqDone(got, "apiError") ]

\* the fetch rejects or response.json() throws: the exception leaves the call
handleRejection(r) == ReqDone(r, "fetchError")

(* ------------------------ extractRealTranscript ------------------------ *)
\* fullText.length > 30 in the language loop and for discovered languages
MinLength == 30
\* fullText.length > 50 for auto-detect, extractedText.length > 50
MinLengthAlternative == 50
\* number of alternativeUrls
AlternativeUrls == 6

\* const languages = ['ko', 'en', 'ja', 'zh', 'es', 'fr', 'de', 'auto']
languages ==
    << << "k", "o" >>, << "e", "n" >>, << "j", "a" >>, << "z", "h" >>,
       << "e", "s" >>, << "f", "r" >>, << "d", "e" >>,
       << "a", "u", "t", "o" >> >>

\* languages.includes(lang)
includes(seq, x) == \E i \in DOMAIN seq : seq[i] = x

\* what \s matches
isSpace(c) == c \in { " ", "\n", "\t" }

\* .replace(/\s+/g, ' '): every run of whitespace becomes one space;
\* first holds the positions of the other characters and of the first
\* character of every run
collapseSpaces(s) ==
    LET first == SelectSeq([ p \in 1..Len(s) |-> p ],
                           LAMBDA p : ~isSpace(s[p]) \/ p = 1
                                          \/ ~isSpace(s[p - 1]))
    IN  [ k \in 1..Len(first) |->
            IF isSpace(s[first[k]]) THEN " " ELSE s[first[k]] ]

\* the end of the shortest match of open .*? close that starts at p, or 0:
\* the dot matches no line break
matchEnd(s, p, open, close) ==
    LET ends == { q \in p + 1..Len(s) :
                    /\ s[q] = close
                    /\ \A r \in p + 1..q - 1 : s[r] # "\n" /\ s[r] # close }
    IN  IF s[p] = open /\ ends # {} THEN CHOOSE q \in ends : TRUE ELSE 0

\* .replace(/open.*?close/g, '') from position p on: the leftmost match is
\* cut out and the search goes on behind it
RECURSIVE removeFrom(_, _, _, _)
removeFrom(s, p, open, close) ==
    LET starts == { q \in p..Len(s) : matchEnd(s, q, open, close) # 0 }
        start == CHOOSE q \in starts : \A r \in starts : q <= r
    IN  IF starts = {} THEN SubSeq(s, p, Len(s))
        ELSE SubSeq(s, p, start - 1)
                 \o removeFrom(s, matchEnd(s, start, open, close) + 1, open, close)

\* .replace(/\[.*?\]/g, '') and .replace(/\(.*?\)/g, '')
removeBetween(s, open, close) == removeFrom(s, 1, open, close)

\* items.join(' ')
RECURSIVE join(_)
join(items) ==
    IF items = << >> THEN << >>
    ELSE IF Len(items) = 1 THEN items[1]
    ELSE items[1] \o << " ">> \o join(Tail(items))

\* .filter(text => text && text.trim()); String.prototype.trim strips
\* line breaks and tabs too
notBlank(text) == \E p \in DOMAIN text : ~isSpace(text[p])

\* lines 32-35: the four replacements applied to the joined text
normalize(s) ==
    trim(collapseSpaces(removeBetween(removeBetween(s, "[", "]"), "(", ")")))

\* lines 26-36: the text of a transcript fetched in the language loop
fullTextLoop(transcript) == normalize(join(SelectSeq(transcript, notBlank)))

\* lines 65-71: the text of a transcript fetched for a discovered language
fullTextDiscovered(transcript) == normalize(join(transcript))

\* lines 99-104: the text of the auto-detect transcript, parentheses kept
fullTextAuto(transcript) ==
    trim(collapseSpaces(removeBetween(join(transcript), "[", "]")))

\* lines 147-155: every seg.utf8 of every event, each followed by a space
RECURSIVE appendSegs(_)
appendSegs(segs) ==
    IF segs = << >> THEN << >>
    ELSE (IF segs[1] = << >> THEN << >> ELSE segs[1] \o << " " >>)
             \o appendSegs(Tail(segs))

RECURSIVE eventsText(_)
eventsText(events) ==
    IF events = << >> THEN << >>
    ELSE appendSegs(events[1]) \o eventsText(Tail(events))

\* lines 143-170: the text of an alternative response; a JSON3 body is its
\* events, an SRV3 body the contents of its text elements
extractedText(data) ==
    trim(collapseSpaces(removeBetween(
        IF data.format = "json3" THEN eventsText(data.events)
        ELSE join(data.texts), "[", "]")))

\* availableLangs[1].split(',')
RECURSIVE split(_, _)
split(s, sep) ==
    IF \E p \in DOMAIN s : s[p] = sep
    THEN LET p == CHOOSE q \in DOMAIN s :
                      s[q] = sep /\ \A r \in 1..q - 1 : s[r] # sep
         IN  << SubSeq(s, 1, p - 1) >> \o split(SubSeq(s, p + 1, Len(s)), sep)
    ELSE << s >>

\* lines 53-59: the languages an error message lists that the loop does not
\* try itself; list is what follows 'Available languages: ' in the message,
\* and (.+) needs it to be non-empty
discovered(list) ==
    IF list = << >> THEN << >>
    ELSE SelectSeq([ i \in DOMAIN split(list, ",") |-> trim(split(list, ",")[i]) ],
                   LAMBDA l : ~includes(languages, l))

\* ---- the normalisation on its own ----
\* the longest text it is applied to, and the number of times it is applied
MaxTextLen == 4
MaxPasses == 2

\* letters, whitespace with a line break, brackets and parentheses
TextChars == { "a", " ", "\n", "[", "]", "(", ")" }
Texts == UNION { [ 1..n -> TextChars ] : n \in 0..MaxTextLen }

\* a text and how often it has been normalized
Text(text, passes) == [ text |-> text, passes |-> passes ]
NoText == Text(<< >>, 0)

\* ---- what the external calls answer ----
\* lengths of the short and of the long text a fetch may return, and the
\* number of fetches of one call that fail listing available languages
ShortLength == 10
LongLength == 200
MaxAvailErrors == 2

chars(c, n) == [ i \in 1..n |-> c ]

\* transcript arrays, as the sequence of their items' text
NoItems == << >>
ShortItems == << chars("k", ShortLength) >>
ThresholdItems == << chars("t", MinLength) >>
UsableItems == << chars("u", MinLength + 1) >>
NoisyItems ==
    << << "[" >> \o chars("m", MinLength + 1) \o << "]" >>, chars("n", 5) >>
ParenItems ==
    << << "(" >> \o chars("s", MinLengthAlternative) \o << ")" >>,
       << "o", "\n", "k" >> >>
LongItems ==
    << chars("e", LongLength \div 2), << " " >>,
       chars("f", LongLength - (LongLength \div 2) - 1) >>

Transcripts ==
    { NoItems, ShortItems, ThresholdItems, UsableItems, NoisyItems,
      ParenItems, LongItems }

\* what follows 'Available languages: ' in the message of a thrown error;
\* empty when the message has no such list
NoList == << >>
AvailableList == << "e", "n", ",", " ", "p", "t", ",", "i", "t", " " >>

\* YoutubeTranscript.fetchTranscript resolves with a transcript or throws
Fetched(transcript) ==
    [ threw |-> FALSE, list |-> NoList, transcript |-> transcript ]
Thrown(list) == [ threw |-> TRUE, list |-> list, transcript |-> NoItems ]
NoFetch == Thrown(NoList)

FetchOutcomes ==
    { Fetched(t) : t \in Transcripts } \cup { Thrown(NoList), Thrown(AvailableList) }

\* axios.get resolves with response.data or throws (timeout included);
\* format "none" is a falsy body, an SRV3 body without texts a string in
\* which nothing matches
Body(format, events, texts) ==
    [ threw |-> FALSE, format |-> format, events |-> events, texts |-> texts ]
GetThrown == [ threw |-> TRUE, format |-> "none", events |-> << >>, texts |-> << >> ]

Bodies ==
    { Body("none", << >>, << >>),
      Body("srv3", << >>, << >>),
      Body("json3", << << chars("j", ShortLength) >> >>, << >>),
      Body("json3", << << chars("j", MinLength), << >> >>, << >>,
                       << chars("k", MinLength) >> >>, << >>),
      Body("srv3", << >>, << chars("x", MinLengthAlternative) >>),
      Body("srv3", << >>, << chars("x", MinLength),
                             << "[", "a", "]" >>, chars("y", MinLength) >>) }

GetOutcomes == Bodies \cup { GetThrown }

\* the texts of the answers above as tables, computed once (@@ makes the
\* function an explicit one)
table(f) == f @@ << >>
LoopText == table([ t \in Transcripts |-> fullTextLoop(t) ])
DiscoveredText == table([ t \in Transcripts |-> fullTextDiscovered(t) ])
AutoText == table([ t \in Transcripts |-> fullTextAuto(t) ])
AlternativeText == table([ b \in Bodies |-> extractedText(b) ])
DiscoveredLangs == table([ l \in { NoList, AvailableList } |-> discovered(l) ])

\* ---- the call ----
auto == << "a", "u", "t", "o" >>
detected == << "d", "e", "t", "e", "c", "t", "e", "d" >>

\* the object the call resolves with
Result(success, transcript, language, method, error) ==
    [ success |-> success, transcript |-> transcript, language |-> language,
      method |-> method, error |-> error ]
NoResult == Result(FALSE, << >>, << >>, "", "")
AllFailed ==
    Result(FALSE, << >>, << >>, "none", "No transcript available for this video")

\* one external call: which method made it, for which language or with
\* which of the alternative URLs
Attempt(method, lang, url) == [ method |-> method, lang |-> lang, url |-> url ]

\* a call: pc is its place ("idle", "loop", "discovered", "auto",
\* "alternative", "done"), i the index of lang in languages, langs what is
\* left of the discovered languages, url the index in alternativeUrls, log
\* the external calls made so far, got and before the answers to the last
\* two of them, text the text computed from the last answer
TxIdle ==
    [ pc |-> "idle", i |-> 0, langs |-> << >>, url |-> 0, availErrors |-> 0,
      log |-> << >>, got |-> NoFetch, before |-> NoFetch, text |-> << >>,
      result |-> NoResult ]

\* bookkeeping of one external call and its answer
answered(t, attempt, outcome, text) ==
    [ t EXCEPT !.log = Append(@, attempt), !.before = t.got,
               !.got = outcome, !.text = text ]

\* return { success: true, transcript, language, method }
succeed(t, language, method) ==
    [ t EXCEPT !.pc = "done",
               !.result = Result(TRUE, t.text, language, method, "") ]

\* the for loop goes on with the next language, or Method 2 begins
\* the same, leaving Method 2 out
nextLanguageNoAuto(t) ==
    IF t.i < Len(languages)
    THEN [ t EXCEPT !.pc = "loop", !.i = t.i + 1, !.langs = << >> ]
    ELSE [ t EXCEPT !.pc = "alternative", !.url = 1, !.langs = << >> ]

nextLanguage(t) ==
    IF t.i < Len(languages)
    THEN [ t EXCEPT !.pc = "loop", !.i = t.i + 1, !.langs = << >> ]
    ELSE [ t EXCEPT !.pc = "auto", !.langs = << >> ]

\* lines 12-59: one fetch of the language loop
\* the same, accepting a text of any length
tryLanguageAnyLength(t, o) ==
    LET a == answered(t, Attempt("loop", languages[t.i], 0), o,
                      IF o.threw THEN << >> ELSE LoopText[o.transcript])
    IN  IF ~o.threw
        THEN IF Len(o.transcript) > 0 /\ Len(a.text) >= 0
             THEN succeed(a, languages[t.i], "youtube-transcript-api")
             ELSE nextLanguage(a)
        ELSE IF DiscoveredLangs[o.list] = << >> THEN nextLanguage(a)
        ELSE [ a EXCEPT !.pc = "discovered", !.langs = DiscoveredLangs[o.list],
                        !.availErrors = @ + 1 ]

tryLanguage(t, o) ==
    LET a == answered(t, Attempt("loop", languages[t.i], 0), o,
                      IF o.threw THEN << >> ELSE LoopText[o.transcript])
    IN  IF ~o.threw
        THEN IF Len(o.transcript) > 0 /\ Len(a.text) > MinLength
             THEN succeed(a, languages[t.i], "youtube-transcript-api")
             ELSE nextLanguage(a)
        ELSE IF DiscoveredLangs[o.list] = << >> THEN nextLanguage(a)
        ELSE [ a EXCEPT !.pc = "discovered", !.langs = DiscoveredLangs[o.list],
                        !.availErrors = @ + 1 ]

\* lines 58-87: one fetch for a discovered language
\* the same without the inner try / catch: the error reaches the outer
\* catch of the function, which ends the call
tryDiscoveredUncaught(t, o) ==
    LET a == answered(t, Attempt("discovered", Head(t.langs), 0), o,
                      IF o.threw THEN << >> ELSE DiscoveredText[o.transcript])
    IN  IF o.threw
        THEN [ a EXCEPT !.pc = "done",
                        !.result = Result(FALSE, << >>, << >>, "error",
                                          "Critical error") ]
        ELSE IF Len(o.transcript) > 0 /\ Len(a.text) > MinLength
        THEN succeed(a, Head(t.langs), "youtube-transcript-api")
        ELSE IF Tail(t.langs) = << >> THEN nextLanguage(a)
        ELSE [ a EXCEPT !.langs = Tail(t.langs) ]

tryDiscovered(t, o) ==
    LET a == answered(t, Attempt("discovered", Head(t.langs), 0), o,
                      IF o.threw THEN << >> ELSE DiscoveredText[o.transcript])
    IN  IF ~o.threw /\ Len(o.transcript) > 0 /\ Len(a.text) > MinLength
        THEN succeed(a, Head(t.langs), "youtube-transcript-api")
        ELSE IF Tail(t.langs) = << >> THEN nextLanguage(a)
        ELSE [ a EXCEPT !.langs = Tail(t.langs) ]

\* lines 93-118: Method 2
tryAuto(t, o) ==
    LET a == answered(t, Attempt("auto", auto, 0), o,
                      IF o.threw THEN << >> ELSE AutoText[o.transcript])
    IN  IF ~o.threw /\ Len(o.transcript) > 0 /\ Len(a.text) > MinLengthAlternative
        THEN succeed(a, auto, "youtube-transcript-api")
        ELSE [ a EXCEPT !.pc = "alternative", !.url = 1 ]

\* lines 130-192: one alternative URL of Method 3, and the end of the chain
\* the same without the try / catch around axios.get: the call rejects
tryAlternativeUncaught(t, o) ==
    LET a == answered(t, Attempt("alternative", << >>, t.url), o,
                      IF o.threw \/ o.format = "none" THEN << >>
                      ELSE AlternativeText[o])
    IN  IF o.threw
        THEN [ a EXCEPT !.pc = "done",
                        !.result = Result(FALSE, << >>, << >>, "rejected", "") ]
        ELSE IF o.format # "none" /\ Len(a.text) > MinLengthAlternative
        THEN succeed(a, detected, "alternative-api")
        ELSE IF t.url < AlternativeUrls THEN [ a EXCEPT !.url = t.url + 1 ]
        ELSE [ a EXCEPT !.pc = "done", !.result = AllFailed ]

tryAlternative(t, o) ==
    LET a == answered(t, Attempt("alternative", << >>, t.url), o,
                      IF o.threw \/ o.format = "none" THEN << >>
                      ELSE AlternativeText[o])
    IN  IF ~o.threw /\ o.format # "none" /\ Len(a.text) > MinLengthAlternative
        THEN succeed(a, detected, "alternative-api")
        ELSE IF t.url < AlternativeUrls THEN [ a EXCEPT !.url = t.url + 1 ]
        ELSE [ a EXCEPT !.pc = "done", !.result = AllFailed ]

(* ------------------------------ actions ------------------------------- *)
This == Mgr(apiKeys, currentKeyId)

Operations ==
    { "postApiKey", "addKey", "removeKey", "setActiveKey",
      "switchToNextAvailableKey", "markKeyAsExceeded", "testKey",
      "resetDailyQuotas" }

Call(op, id, name, key, outcome, ret) ==
    [ op |-> op, id |-> id, name |-> name, key |-> key,
      outcome |-> outcome, ret |-> ret, body |-> << >> ]

\* the step made no watched call
Idle == Call("idle", NoKey, null, null, "", FALSE)

Record(call) == last' = IF call.op \in watch THEN call ELSE Idle

Commit(m) ==
    /\ apiKeys' = m.keys
    /\ currentKeyId' = m.cur

EnvSeqs == UNION { [ 1..n -> EnvSecrets ] : n \in 0..MaxEnvKeys }

\* the module has been loaded: constructor and start-up reset have run
Loaded ==
    \E env \in EnvSeqs :
        /\ apiKeys = constructor(env).keys
        /\ currentKeyId = constructor(env).cur
        /\ nextId = Len(env) + 1
        /\ last = Idle
        /\ req = ReqIdle
        /\ tx = TxIdle
        /\ norm = NoText
        /\ req2 = ReqIdle
        /\ probe = NoProbe

Init ==
    /\ Loaded
    /\ watch = Operations \ { "addKey" }

\* POST /api/settings/api-keys with the body's name drawn from names; the
\* route's own request and response are recorded if the route is watched,
\* else the addKey call it makes
postApiKey(names) ==
    \E name \in names, key \in RawKeys :
        IF ~truthy(name) \/ ~truthy(key)
        THEN /\ Record(Call("postApiKey", NoKey, name, key, "400", FALSE))
             /\ UNCHANGED << apiKeys, currentKeyId, nextId, watch, req, tx,
                             norm, req2, probe >>
        ELSE /\ nextId <= MaxIds
             /\ Commit(addKey(This, trim(name), trim(key), nextId))
             /\ nextId' = nextId + 1
             /\ IF "postApiKey" \in watch
                THEN Record(Call("postApiKey", nextId, name, key, "200", TRUE))
                ELSE Record(Call("addKey", nextId, null, null, "", TRUE))
             /\ UNCHANGED << watch, req, tx, norm, req2, probe >>

PostApiKey == postApiKey(PlainNames)

PostApiKeyAnyName == postApiKey(RawNames)

\* DELETE /api/settings/api-keys/:id
DeleteApiKey ==
    \E id \in 1..MaxIds :
        /\ Commit(removeKey(This, id).m)
        /\ Record(Call("removeKey", id, null, null, "", removeKey(This, id).ret))
        /\ UNCHANGED << nextId, watch, req, tx, norm, req2, probe >>

\* POST /api/settings/api-keys/:id/activate
ActivateApiKey ==
    \E id \in 1..MaxIds :
        /\ Commit(setActiveKey(This, id).m)
        /\ Record(Call("setActiveKey", id, null, null, "", setActiveKey(This, id).ret))
        /\ UNCHANGED << nextId, watch, req, tx, norm, req2, probe >>

\* POST /api/settings/api-keys/switch-next
SwitchNext ==
    /\ Commit(switchToNextAvailableKey(This).m)
    /\ Record(Call("switchToNextAvailableKey", NoKey, null, null, "",
                   switchToNextAvailableKey(This).ret))
    /\ UNCHANGED << nextId, watch, req, tx, norm, req2, probe >>

\* a request path reporting the secret it sent as exhausted
MarkExceeded ==
    \E secret \in SentSecrets :
        /\ Commit(markKeyAsExceeded(This, secret))
        /\ Record(Call("markKeyAsExceeded", NoKey, null, secret, "", TRUE))
        /\ UNCHANGED << nextId, watch, req, tx, norm, req2, probe >>

\* POST /api/settings/api-keys/:id/test
TestKey ==
    \E id \in 1..MaxIds, outcome \in TestOutcomes :
        /\ Commit(testKey(This, id, outcome).m)
        /\ Record(Call("testKey", id, null, null, outcome,
                       testKey(This, id, outcome).ret))
        /\ UNCHANGED << nextId, watch, req, tx, norm, req2, probe >>

\* the daily job
ResetDailyQuotas ==
    /\ Commit(resetDailyQuotas(This))
    /\ Record(Call("resetDailyQuotas", NoKey, null, null, "", TRUE))
    /\ UNCHANGED << nextId, watch, req, tx, norm, req2, probe >>

Next ==
    \/ PostApiKey
    \/ DeleteApiKey
    \/ ActivateApiKey
    \/ SwitchNext
    \/ MarkExceeded
    \/ TestKey
    \/ ResetDailyQuotas

\* every call but addKey is recorded (the add route is recorded as a whole)
Spec == Init /\ [][Next]_vars

\* the same manager with only the addKey calls recorded
InitAddKey == Loaded /\ watch = { "addKey" }
SpecAddKey == InitAddKey /\ [][Next]_vars

\* ... with only the removeKey and setActiveKey calls recorded
InitRemoveActivate == Loaded /\ watch = { "removeKey", "setActiveKey" }
SpecRemoveActivate == InitRemoveActivate /\ [][Next]_vars

\* the add and delete routes alone, the add route with any name
NextRoutes ==
    \/ PostApiKeyAnyName
    \/ DeleteApiKey

InitRoutes == Loaded /\ watch = { "postApiKey" }
SpecRoutes == InitRoutes /\ [][NextRoutes]_vars

(* -------------------- a request using the manager --------------------- *)
\* a route calls makeYouTubeApiRequest(url, params)
RequestStart ==
    /\ req.pc \in { "idle", "done" }
    /\ req' = makeYouTubeApiRequest(This, ReqIdle, 0)
    /\ last' = Idle
    /\ UNCHANGED << apiKeys, currentKeyId, nextId, watch, tx, norm, req2,
                    probe >>

\* the awaited fetch and response.json() resolve
RequestResponse ==
    /\ req.pc = "fetch"
    /\ \E resp \in Responses :
          /\ Commit(handleResponse(This, req, resp).m)
          /\ req' = handleResponse(This, req, resp).r
    /\ last' = Idle
    /\ UNCHANGED << nextId, watch, tx, norm, req2, probe >>

\* ... or one of them rejects
RequestRejected ==
    /\ req.pc = "fetch"
    /\ req' = handleRejection(req)
    /\ last' = Idle
    /\ UNCHANGED << apiKeys, currentKeyId, nextId, watch, tx, norm, req2,
                    probe >>

\* requests next to the settings routes that add and test keys
NextRequest ==
    \/ PostApiKey
    \/ TestKey
    \/ RequestStart
    \/ RequestResponse
    \/ RequestRejected

InitRequest == Loaded /\ watch = { }
SpecRequest == InitRequest /\ [][NextRequest]_vars

\* requests next to the settings routes that add and delete keys
NextRetry ==
    \/ PostApiKey
    \/ DeleteApiKey
    \/ RequestStart
    \/ RequestResponse
    \/ RequestRejected

SpecRetry == InitRequest /\ [][NextRetry]_vars

\* GET /api/settings/api-keys
GetApiKeys ==
    /\ Record([ Call("getAllKeys", NoKey, null, null, "200", TRUE)
                   EXCEPT !.body = listApiKeys(This) ])
    /\ UNCHANGED << apiKeys, currentKeyId, nextId, watch, req, tx, norm,
                    req2, probe >>

\* secrets of the lengths around the two cuts of the listing
MaxSecretLen == 16
SecretChars == << "A", "I", "z", "a" >>
secret(n) == [ i \in 1..n |-> SecretChars[((i - 1) % Len(SecretChars)) + 1] ]
ListedSecrets ==
    { secret(n) : n \in { 1, SuffixLength, PrefixLength,
                          PrefixLength + SuffixLength,
                          PrefixLength + SuffixLength + 1, MaxSecretLen } }

ListedEnvSeqs == UNION { [ 1..n -> ListedSecrets ] : n \in 0..MaxEnvKeys }

\* the listing alone is watched, on stores that hold longer secrets too
InitListing ==
    /\ \E env \in ListedEnvSeqs :
          /\ apiKeys = constructor(env).keys
          /\ currentKeyId = constructor(env).cur
          /\ nextId = Len(env) + 1
    /\ last = Idle
    /\ req = ReqIdle
    /\ tx = TxIdle
    /\ norm = NoText
    /\ req2 = ReqIdle
    /\ probe = NoProbe
    /\ watch = { "getAllKeys" }

NextListing ==
    \/ GetApiKeys
    \/ PostApiKey
    \/ DeleteApiKey
    \/ TestKey

SpecListing == InitListing /\ [][NextListing]_vars

\* extractRealTranscript(videoId) is called
TranscriptStart ==
    /\ tx.pc \in { "idle", "done" }
    /\ tx' = [ TxIdle EXCEPT !.pc = "loop", !.i = 1 ]
    /\ UNCHANGED << apiKeys, currentKeyId, nextId, watch, last, req, norm,
                    req2, probe >>

\* await YoutubeTranscript.fetchTranscript(videoId, { lang }) in the loop
FetchLanguage ==
    /\ tx.pc = "loop"
    /\ \E o \in FetchOutcomes :
          /\ o.list # NoList => tx.availErrors < MaxAvailErrors
          /\ tx' = tryLanguage(tx, o)
    /\ UNCHANGED << apiKeys, currentKeyId, nextId, watch, last, req, norm,
                    req2, probe >>

\* await YoutubeTranscript.fetchTranscript(videoId, { lang: availLang })
FetchDiscovered ==
    /\ tx.pc = "discovered"
    /\ \E o \in FetchOutcomes \ { Thrown(AvailableList) } :
          tx' = tryDiscovered(tx, o)
    /\ UNCHANGED << apiKeys, currentKeyId, nextId, watch, last, req, norm,
                    req2, probe >>

\* await YoutubeTranscript.fetchTranscript(videoId) of Method 2
FetchAuto ==
    /\ tx.pc = "auto"
    /\ \E o \in FetchOutcomes \ { Thrown(AvailableList) } :
          tx' = tryAuto(tx, o)
    /\ UNCHANGED << apiKeys, currentKeyId, nextId, watch, last, req, norm,
                    req2, probe >>

\* await axios.get(url, ...) of Method 3
GetAlternative ==
    /\ tx.pc = "alternative"
    /\ \E o \in GetOutcomes : tx' = tryAlternative(tx, o)
    /\ UNCHANGED << apiKeys, currentKeyId, nextId, watch, last, req, norm,
                    req2, probe >>

NextTranscript ==
    \/ TranscriptStart
    \/ FetchLanguage
    \/ FetchDiscovered
    \/ FetchAuto
    \/ GetAlternative

\* the extraction uses no API key: the manager is the one of an empty
\* environment and stays as it is
InitTranscript == Loaded /\ watch = { } /\ apiKeys = << >>
SpecTranscript == InitTranscript /\ [][NextTranscript]_vars

\* the probes alone are watched, next to the calls that set up their cases
NextTestKey ==
    \/ PostApiKey
    \/ DeleteApiKey
    \/ MarkExceeded
    \/ TestKey

InitTestKey == Loaded /\ watch = { "testKey" }
SpecTestKey == InitTestKey /\ [][NextTestKey]_vars

(* ------------------------- a probe in flight -------------------------- *)
\* testKey(id) up to the awaited fetch; an unknown id is answered at once
ProbeStart ==
    /\ probe.pc = "idle"
    /\ \E id \in 1..MaxIds :
          IF has(apiKeys, id)
          THEN /\ probe' = Probe("fetch", id, get(apiKeys, id).quotaExceeded)
               /\ last' = Idle
          ELSE /\ probe' = probe
               /\ Record(Call("testKey", id, null, null, "", FALSE))
    /\ UNCHANGED << apiKeys, currentKeyId, nextId, watch, req, tx, norm, req2 >>

\* ... and from the answer of the fetch on: the flag is written to the
\* credential looked up before the fetch, which leaves the map untouched
\* if the credential has been removed meanwhile
ProbeResponse ==
    /\ probe.pc = "fetch"
    /\ \E outcome \in TestOutcomes :
          /\ Commit(testKey(This, probe.id, outcome).m)
          /\ Record(Call("testKey", probe.id, null, null, outcome,
                         outcome = "success"))
    /\ probe' = NoProbe
    /\ UNCHANGED << nextId, watch, req, tx, norm, req2 >>

\* probes in flight next to the calls that add, delete and mark keys
NextProbe ==
    \/ PostApiKey
    \/ DeleteApiKey
    \/ MarkExceeded
    \/ ProbeStart
    \/ ProbeResponse

SpecProbe == InitTestKey /\ [][NextProbe]_vars

(* ------------------------ two requests in flight ---------------------- *)
\* a route calls makeYouTubeApiRequest(url, params) while another call is
\* under way
Request2Start ==
    /\ req2.pc \in { "idle", "done" }
    /\ req2' = makeYouTubeApiRequest(This, ReqIdle, 0)
    /\ last' = Idle
    /\ UNCHANGED << apiKeys, currentKeyId, nextId, watch, req, tx, norm, probe >>

\* its awaited fetch and response.json() resolve
Request2Response ==
    /\ req2.pc = "fetch"
    /\ \E resp \in Responses :
          /\ Commit(handleResponse(This, req2, resp).m)
          /\ req2' = handleResponse(This, req2, resp).r
    /\ last' = Idle
    /\ UNCHANGED << nextId, watch, req, tx, norm, probe >>

\* ... or one of them rejects
Request2Rejected ==
    /\ req2.pc = "fetch"
    /\ req2' = handleRejection(req2)
    /\ last' = Idle
    /\ UNCHANGED << apiKeys, currentKeyId, nextId, watch, req, tx, norm, probe >>

\* two calls next to the route that adds keys
NextConcurrent ==
    \/ PostApiKey
    \/ RequestStart
    \/ RequestResponse
    \/ RequestRejected
    \/ Request2Start
    \/ Request2Response
    \/ Request2Rejected

SpecConcurrent == InitRequest /\ [][NextConcurrent]_vars

(* ----------------------- the normalisation alone ---------------------- *)
\* the replacements of lines 32-35 are applied to the text once more
Normalize ==
    /\ norm.passes < MaxPasses
    /\ norm' = Text(normalize(norm.text), norm.passes + 1)
    /\ UNCHANGED << apiKeys, currentKeyId, nextId, watch, last, req, tx, req2,
                    probe >>

NextNormalize == Normalize

\* any text up to MaxTextLen characters, next to an empty manager
InitNormalize ==
    /\ apiKeys = constructor(<< >>).keys
    /\ currentKeyId = constructor(<< >>).cur
    /\ nextId = 1
    /\ watch = { }
    /\ last = Idle
    /\ req = ReqIdle
    /\ tx = TxIdle
    /\ req2 = ReqIdle
    /\ probe = NoProbe
    /\ norm \in { Text(t, 0) : t \in Texts }

SpecNormalize == InitNormalize /\ [][NextNormalize]_vars

(* ------------------------------ typing -------------------------------- *)
TypeOK ==
    /\ \A i \in 1..Len(apiKeys) :
          /\ apiKeys[i].id \in 1..MaxIds
          /\ apiKeys[i].isActive \in BOOLEAN
          /\ apiKeys[i].quotaExceeded \in BOOLEAN
    /\ \A i, j \in 1..Len(apiKeys) : i < j => apiKeys[i].id < apiKeys[j].id
    /\ currentKeyId \in { NoKey } \cup 1..MaxIds
    /\ nextId \in 1..MaxIds + 1
    /\ last.op \in watch \cup { "idle" }
    /\ req.pc \in { "idle", "fetch", "done" }
    /\ req.retryCount \in 0..MaxRetries
    /\ req.result \in { "none", "data", "noKeyError", "allExceededError",
                        "apiError", "fetchError" }
    /\ tx.pc \in { "idle", "loop", "discovered", "auto", "alternative", "done" }
    /\ tx.i \in 0..Len(languages)
    /\ tx.url \in 0..AlternativeUrls
    /\ tx.availErrors \in 0..MaxAvailErrors
    /\ norm.passes \in 0..MaxPasses
    /\ Len(norm.text) <= MaxTextLen
    /\ req2.pc \in { "idle", "fetch", "done" }
    /\ req2.retryCount \in 0..MaxRetries
    /\ probe.pc \in { "idle", "fetch" }
    /\ probe.id \in { NoKey } \cup 1..MaxIds

(* ------------------------------ claims -------------------------------- *)
This1 == Mgr(apiKeys', currentKeyId')

\* positions of the credentials whose isActive flag is set
activeFlags(keys) == { i \in 1..Len(keys) : keys[i].isActive }

\* position of the earliest-inserted credential that is not exhausted
earliest(keys) ==
    CHOOSE i \in availableKeys(keys) : \A j \in availableKeys(keys) : i <= j

\* C1: at every observation point at most one credential has isActive set.
C1_AtMostOneActive == Cardinality(activeFlags(apiKeys)) <= 1

\* C2: no credential is both exhausted (quotaExceeded) and active (isActive).
C2_NoExhaustedActive ==
    \A i \in 1..Len(apiKeys) : ~(apiKeys[i].quotaExceeded /\ apiKeys[i].isActive)

\* C3: markKeyAsExceeded called with the secret of the currently active
\* credential leaves that credential exhausted and inactive, and if another
\* credential is not exhausted, a different credential is active afterwards
\* and getActiveKey returns a different secret.
C3_MarkActiveRotates ==
    [][ ( /\ last'.op = "markKeyAsExceeded"
          /\ currentKeyId # NoKey
          /\ has(apiKeys, currentKeyId)
          /\ get(apiKeys, currentKeyId).isActive
          /\ get(apiKeys, currentKeyId).key = last'.key )
        => /\ get(apiKeys', currentKeyId).quotaExceeded
           /\ ~get(apiKeys', currentKeyId).isActive
           /\ (\E i \in availableKeys(apiKeys) : apiKeys[i].id # currentKeyId)
                 => /\ currentKeyId' \notin { NoKey, currentKeyId }
                    /\ get(apiKeys', currentKeyId').isActive
                    /\ getActiveKey(This1) \notin { null, last'.key } ]_vars

\* C4: when every credential is exhausted (or there is none) getActiveKey
\* returns null, and the secret it returns is never the secret of a
\* credential whose quotaExceeded flag is set.
C4_NoExhaustedSecretHandedOut ==
    /\ availableKeys(apiKeys) = {} => getActiveKey(This) = null
    /\ \A i \in 1..Len(apiKeys) :
          apiKeys[i].quotaExceeded => getActiveKey(This) # apiKeys[i].key

\* C5: if some credential is not exhausted, getActiveKey returns a secret.
C5_UsableKeyIsHandedOut ==
    availableKeys(apiKeys) # {} => getActiveKey(This) # null

\* C6: switchToNextAvailableKey returns true and leaves the earliest-inserted
\* non-exhausted credential as the only active one if there is a
\* non-exhausted credential; otherwise it returns false and leaves no
\* isActive flag set and getActiveKey absent.
C6_SwitchSelectsEarliest ==
    [][ last'.op = "switchToNextAvailableKey"
        => IF availableKeys(apiKeys) # {}
           THEN /\ last'.ret
                /\ currentKeyId' = apiKeys[earliest(apiKeys)].id
                /\ activeFlags(apiKeys') = { earliest(apiKeys) }
           ELSE /\ ~last'.ret
                /\ activeFlags(apiKeys') = {}
                /\ getActiveKey(This1) = null ]_vars

\* C7: addKey appends the new credential with quotaExceeded false; if
\* getActiveKey was absent before the call the new credential is active and
\* current afterwards, otherwise the new credential is inactive and the
\* current credential is still current, active and handed out.
C7_AddKeyActivation ==
    [][ last'.op = "addKey"
        => /\ ~has(apiKeys, last'.id)
           /\ Len(apiKeys') = Len(apiKeys) + 1
           /\ apiKeys'[Len(apiKeys')].id = last'.id
           /\ ~apiKeys'[Len(apiKeys')].quotaExceeded
           /\ IF getActiveKey(This) = null
              THEN /\ currentKeyId' = last'.id
                   /\ apiKeys'[Len(apiKeys')].isActive
              ELSE /\ ~apiKeys'[Len(apiKeys')].isActive
                   /\ currentKeyId' = currentKeyId
                   /\ get(apiKeys', currentKeyId).isActive
                   /\ getActiveKey(This1) = getActiveKey(This) ]_vars

\* C7 witness: a credential was added to a manager that held credentials
\* but handed none out, and is now the current, active one.
C7_Witness ==
    /\ last.op = "addKey"
    /\ Len(apiKeys) >= 2
    /\ currentKeyId = last.id
    /\ get(apiKeys, last.id).isActive

\* C8: a request to add a credential whose name or secret is empty, also
\* when it is empty only after trim, is answered with the validation error
\* and leaves the credentials unchanged.
C8_EmptyFieldsRejected ==
    [][ ( /\ last'.op = "postApiKey"
          /\ trim(last'.name) = <<>> \/ trim(last'.key) = <<>> )
        => /\ ~last'.ret
           /\ last'.outcome = "400"
           /\ apiKeys' = apiKeys ]_vars

\* C9: removeKey of the current credential deletes it and afterwards the
\* earliest-inserted remaining non-exhausted credential is the active one,
\* or no credential is active if all remaining ones are exhausted; removeKey
\* of another credential leaves the active credential unchanged.
C9_RemoveFailsOver ==
    [][ (last'.op = "removeKey" /\ last'.ret)
        => /\ Ids(apiKeys') = Ids(apiKeys) \ { last'.id }
           /\ IF last'.id = currentKeyId
              THEN IF availableKeys(apiKeys') # {}
                   THEN /\ currentKeyId' = apiKeys'[earliest(apiKeys')].id
                        /\ activeFlags(apiKeys') = { earliest(apiKeys') }
                   ELSE /\ currentKeyId' = NoKey
                        /\ activeFlags(apiKeys') = {}
                        /\ getActiveKey(This1) = null
              ELSE /\ currentKeyId' = currentKeyId
                   /\ \A i \in 1..Len(apiKeys') :
                         apiKeys'[i] = get(apiKeys, apiKeys'[i].id) ]_vars

\* C10: removeKey with an unknown id, and setActiveKey with an unknown id or
\* the id of an exhausted credential, return false and change neither the
\* credentials, nor any flag, nor the current credential.
C10_FailureChangesNothing ==
    [][ ( \/ last'.op = "removeKey" /\ ~has(apiKeys, last'.id)
          \/ /\ last'.op = "setActiveKey"
             /\ ~has(apiKeys, last'.id) \/ get(apiKeys, last'.id).quotaExceeded )
        => /\ ~last'.ret
           /\ apiKeys' = apiKeys
           /\ currentKeyId' = currentKeyId ]_vars

\* C10 witness: setActiveKey was refused for an exhausted credential while
\* another credential is current.
C10_Witness ==
    /\ last.op = "setActiveKey"
    /\ ~last.ret
    /\ has(apiKeys, last.id)
    /\ get(apiKeys, last.id).quotaExceeded
    /\ currentKeyId \notin { NoKey, last.id }

\* C11: testKey changes the probed credential's quotaExceeded flag only so:
\* a quotaExceeded body sets it, a success body clears it, a network failure
\* or any other error body leaves it and answers success=false; nothing else
\* of the manager changes, no other credential in particular.
C11_TestKeyFlags ==
    [][ (last'.op = "testKey" /\ has(apiKeys, last'.id)) =>
            LET before == get(apiKeys, last'.id)
                after == [ before EXCEPT !.quotaExceeded =
                             CASE last'.outcome = "quotaExceeded" -> TRUE
                               [] last'.outcome = "success" -> FALSE
                               [] OTHER -> before.quotaExceeded ]
            IN  /\ currentKeyId' = currentKeyId
                /\ DOMAIN apiKeys' = DOMAIN apiKeys
                /\ \A i \in DOMAIN apiKeys :
                      apiKeys'[i] = IF apiKeys[i].id = last'.id
                                    THEN after ELSE apiKeys[i]
                /\ last'.outcome \in { "network", "otherError" } => ~last'.ret
      ]_vars

\* a probe of an exhausted credential failed on the network, next to a
\* second credential, and the flag is still set
C11_Witness ==
    /\ last.op = "testKey"
    /\ last.outcome = "network"
    /\ ~last.ret
    /\ Len(apiKeys) >= 2
    /\ has(apiKeys, last.id)
    /\ get(apiKeys, last.id).quotaExceeded
\* C12: after resetDailyQuotas no credential is exhausted and, on a manager
\* holding at least one credential, getActiveKey returns a secret both right
\* after the reset and after a following switchToNextAvailableKey, whatever
\* calls came before.
C12_ResetYieldsActiveKey ==
    [][ last'.op = "resetDailyQuotas" =>
            /\ \A i \in DOMAIN apiKeys' : ~apiKeys'[i].quotaExceeded
            /\ Len(apiKeys') >= 1 =>
                  /\ getActiveKey(This1) # null
                  /\ getActiveKey(switchToNextAvailableKey(This1).m) # null
      ]_vars
\* C13 as stated: a makeYouTubeApiRequest call whose responses keep giving
\* the reason quotaExceeded sends at most 2 requests to the external API.
C13_AtMostTwoAttempts ==
    req.onlyQuota => Len(req.sent) <= 2

\* C13: a makeYouTubeApiRequest call sends at most 3 requests to the
\* external API, the first and at most MaxRetries retries, whatever the
\* responses and the number of credentials; the retry count is the number
\* of requests sent before the one awaited.
C13_AtMostThreeAttempts ==
    /\ Len(req.sent) <= MaxRetries + 1
    /\ req.pc = "fetch" => Len(req.sent) = req.retryCount + 1

\* a call has ended on its third quotaExceeded response
C13_Witness ==
    /\ req.pc = "done"
    /\ req.onlyQuota
    /\ req.data.reason = "quotaExceeded"
    /\ Len(req.sent) = MaxRetries + 1
\* C14: makeYouTubeApiRequest lets a quotaExceeded response fail the call
\* only when no credential that is not exhausted remains in the manager, and
\* the failure is then one of the two no-credentials errors, never the
\* generic API error; with such a credential left the call goes on.
C14_QuotaFailureOnlyWhenNoneLeft ==
    [][ ( /\ req.pc = "fetch"
          /\ req'.pc = "done"
          /\ req'.result # "fetchError"
          /\ req'.data.reason = "quotaExceeded" ) =>
            /\ availableKeys(apiKeys') = { }
            /\ req'.result \in { "allExceededError", "noKeyError" }
      ]_vars
\* C15: a credential's quotaExceeded flag becomes true only in a step where
\* the external API answered with the reason quotaExceeded to a request that
\* carried this credential's secret or to a probe of this credential; no
\* other error body, a 403 with another reason for one, sets it.
C15_ExhaustedOnlyOnQuotaReason ==
    [][ \A i \in DOMAIN apiKeys :
          ( /\ i \in DOMAIN apiKeys'
            /\ apiKeys'[i].id = apiKeys[i].id
            /\ ~apiKeys[i].quotaExceeded
            /\ apiKeys'[i].quotaExceeded ) =>
              \/ /\ req.pc = "fetch"
                 /\ req' # req
                 /\ req'.data.reason = "quotaExceeded"
                 /\ req.key = apiKeys[i].key
              \/ /\ req' = req
                 /\ This1 = testKey(This, apiKeys[i].id, "quotaExceeded").m
      ]_vars
\* the secret with the character at position p replaced by another one
otherSecret(key, p) ==
    [ key EXCEPT ![p] = IF @ = "x" THEN "y" ELSE "x" ]

\* C16: the listing shows of every credential only a prefix and a suffix
\* of its secret, never the complete secret: a secret that differs outside
\* the shown prefix and suffix is listed as the same string, and for a
\* secret of any length there is such a different secret; the listing is
\* in insertion order and changes nothing of the manager.
C16_ListingHidesSecrets ==
    [][ last'.op = "getAllKeys" =>
          /\ UNCHANGED << apiKeys, currentKeyId, nextId >>
          /\ Len(last'.body) = Len(apiKeys)
          /\ \A i \in DOMAIN apiKeys :
                LET key == apiKeys[i].key
                    shown == last'.body[i].key
                IN  /\ last'.body[i].id = apiKeys[i].id
                    /\ last'.body[i].name = apiKeys[i].name
                    /\ \A p \in 1..Len(key) :
                          (p > PrefixLength /\ p <= Len(key) - SuffixLength)
                              => maskedKey(otherSecret(key, p)) = shown
                    /\ Len(key) >= 1 =>
                          \E p \in 1..Len(key) :
                              maskedKey(otherSecret(key, p)) = shown
      ]_vars
\* the text an attempt computes from its answer, and the length it must
\* exceed to be returned
attemptText(a, o) ==
    IF o.threw THEN << >>
    ELSE CASE a.method = "loop" -> LoopText[o.transcript]
           [] a.method = "discovered" -> DiscoveredText[o.transcript]
           [] a.method = "auto" -> AutoText[o.transcript]
           [] a.method = "alternative" ->
                IF o.format = "none" THEN << >> ELSE AlternativeText[o]

threshold(a) ==
    IF a.method \in { "loop", "discovered" } THEN MinLength
    ELSE MinLengthAlternative

\* the attempt produced a text that is returned
usable(a, o) == Len(attemptText(a, o)) > threshold(a)

\* the language a result of the attempt is tagged with
tag(a) ==
    CASE a.method \in { "loop", "discovered" } -> a.lang
      [] a.method = "auto" -> auto
      [] a.method = "alternative" -> detected

\* the attempts of one method in a log, and the latest attempt
ofMethod(log, method) == SelectSeq(log, LAMBDA a : a.method = method)
latest(log) == log[Len(log)]

\* the strategy of the specification an attempt belongs to: 1 preferred
\* locale, 2 fallback locales, 3 auto-detect, 4 discovered locales, 5 raw
\* timed-text URLs
strategy(a) ==
    CASE a.method = "loop" /\ a.lang = languages[1] -> 1
      [] a.method = "loop" /\ a.lang = auto -> 3
      [] a.method = "loop" -> 2
      [] a.method = "auto" -> 3
      [] a.method = "discovered" -> 4
      [] a.method = "alternative" -> 5

\* C17 as stated: the external calls of one extractRealTranscript call
\* follow the order preferred locale, fallback locales, auto-detect,
\* discovered locales, raw URLs.
C17_SpecifiedOrder ==
    \A j, k \in DOMAIN tx.log :
        j < k => strategy(tx.log[j]) <= strategy(tx.log[k])

\* C17: the external calls of one extractRealTranscript call follow the
\* order of the code: ko, en, ja, zh, es, fr, de and auto-detect in turn,
\* each followed at once, when its fetch threw an 'Available languages'
\* error, by the listed locales that are not among the eight; then
\* auto-detect once more; then the six raw URLs in turn; and a call is made
\* only if the one before it threw or gave a text not longer than its
\* threshold.
C17_CodeOrder ==
    LET log == tx.log
        n == Len(log)
    IN  /\ \A k \in 1..n :
              LET a == log[k]
                  earlier == SubSeq(log, 1, k - 1)
                  loops == Len(ofMethod(earlier, "loop"))
                  autos == Len(ofMethod(earlier, "auto"))
                  alternatives == Len(ofMethod(earlier, "alternative"))
              IN  CASE a.method = "loop" ->
                         /\ loops < Len(languages)
                         /\ a.lang = languages[loops + 1]
                         /\ autos = 0 /\ alternatives = 0
                    [] a.method = "discovered" ->
                         /\ loops >= 1
                         /\ ~includes(languages, a.lang)
                         /\ autos = 0 /\ alternatives = 0
                    [] a.method = "auto" ->
                         /\ loops = Len(languages)
                         /\ autos = 0 /\ alternatives = 0
                    [] a.method = "alternative" ->
                         /\ autos = 1
                         /\ a.url = alternatives + 1
                         /\ a.url <= AlternativeUrls
        /\ n >= 2 => ~usable(log[n - 1], tx.before)
        /\ (n >= 2 /\ log[n].method = "discovered" /\ log[n - 1].method = "loop")
              => /\ tx.before.threw
                 /\ DiscoveredLangs[tx.before.list] # << >>
                 /\ log[n].lang = DiscoveredLangs[tx.before.list][1]

\* a call went through the whole chain, with discovered locales fetched
\* between ko and en
C17_Witness ==
    /\ tx.pc = "done"
    /\ Len(tx.log) > Len(languages) + 1 + AlternativeUrls
    /\ tx.log[1].method = "loop" /\ tx.log[1].lang = languages[1]
    /\ tx.log[2].method = "discovered"
    /\ \E k \in DOMAIN tx.log :
          tx.log[k].method = "loop" /\ tx.log[k].lang = languages[2]
    /\ latest(tx.log).method = "alternative"
    /\ latest(tx.log).url = AlternativeUrls
\* the attempt's text has at least the minimum usable length
meetsThreshold(a, o) ==
    /\ ~o.threw
    /\ attemptText(a, o) # << >>
    /\ Len(attemptText(a, o)) >= threshold(a)

\* the step made an external call of the extraction
attempted == tx.pc \notin { "idle", "done" } /\ tx'.log # tx.log

\* C18: the first attempt whose normalized text meets the usability
\* threshold ends the call: the result is success with exactly that text
\* and the attempt's language tag, and the call makes no further external
\* call.
C18_FirstUsableEnds ==
    [][ /\ (attempted /\ meetsThreshold(latest(tx'.log), tx'.got)) =>
              /\ tx'.pc = "done"
              /\ tx'.result.success
              /\ tx'.result.transcript = attemptText(latest(tx'.log), tx'.got)
              /\ tx'.result.language = tag(latest(tx'.log))
        /\ (attempted /\ Len(tx.log) >= 1) =>
              ~meetsThreshold(latest(tx.log), tx.got)
        /\ tx.pc = "done" => (tx'.log = tx.log \/ tx'.log = << >>)
      ]_vars

\* C19: no success result carries an empty text or one below the usability
\* threshold, every returned text has at least MinLength characters; and
\* when the fetch for ko gives ShortLength characters and the fetch for en
\* gives LongLength characters, the result is success with the text and the
\* language of en.
C19_NoShortSuccess ==
    [][ /\ tx'.result.success =>
              /\ tx'.result.transcript # << >>
              /\ Len(tx'.result.transcript) >= MinLength
        /\ ( /\ tx.log = << Attempt("loop", languages[1], 0) >>
             /\ ~tx.got.threw
             /\ Len(attemptText(latest(tx.log), tx.got)) = ShortLength
             /\ tx'.log = Append(tx.log, Attempt("loop", languages[2], 0))
             /\ ~tx'.got.threw
             /\ Len(attemptText(latest(tx'.log), tx'.got)) = LongLength ) =>
              /\ tx'.pc = "done"
              /\ tx'.result =
                    Result(TRUE, attemptText(latest(tx'.log), tx'.got),
                           languages[2], "youtube-transcript-api", "")
      ]_vars

\* ko gave ShortLength characters, en gave LongLength characters, and the
\* call has returned them
C19_Witness ==
    /\ tx.pc = "done"
    /\ tx.log = << Attempt("loop", languages[1], 0),
                   Attempt("loop", languages[2], 0) >>
    /\ tx.before = Fetched(ShortItems)
    /\ Len(LoopText[ShortItems]) = ShortLength
    /\ tx.got = Fetched(LongItems)
    /\ tx.result.success
    /\ tx.result.language = languages[2]
    /\ Len(tx.result.transcript) = LongLength

\* the chain is at its end: all languages, Method 2 and every alternative
\* URL have been tried
exhausted(log) ==
    /\ Len(ofMethod(log, "loop")) = Len(languages)
    /\ Len(ofMethod(log, "auto")) = 1
    /\ Len(ofMethod(log, "alternative")) = AlternativeUrls

\* C20: when every attempt has thrown or given a text that is not returned,
\* the call resolves with success false and the message 'No transcript
\* available for this video'; it ends in no other way than this or a
\* success, whatever the attempts answer.
C20_AllFailResolves ==
    /\ tx.pc \in { "idle", "loop", "discovered", "auto", "alternative", "done" }
    /\ tx.pc = "done" =>
          /\ tx.log # << >>
          /\ tx.result.method \in { "youtube-transcript-api", "alternative-api", "none" }
          /\ tx.result.success <=> usable(latest(tx.log), tx.got)
          /\ ~tx.result.success =>
                /\ tx.result = AllFailed
                /\ exhausted(tx.log)
    /\ (tx.log # << >> /\ exhausted(tx.log)
            /\ ~usable(latest(tx.log), tx.got)) =>
          /\ tx.pc = "done"
          /\ tx.result = AllFailed

\* a call has ended without a transcript after its last alternative URL
\* threw, discovered languages included
C20_Witness ==
    /\ tx.pc = "done"
    /\ tx.result = AllFailed
    /\ tx.got = GetThrown
    /\ ofMethod(tx.log, "discovered") # << >>
    /\ exhausted(tx.log)
\* the locale a fetch through the caption API asks for; none when the call
\* passes no lang option
requested(a) == IF a.method = "auto" \/ a.lang = auto THEN << >> ELSE a.lang

\* the fetches through the caption API in a log
viaCaptionApi(log) == SelectSeq(log, LAMBDA a : a.method # "alternative")

\* C21: within one extractRealTranscript call no locale is requested from
\* the caption API more than once, and the fetch without a locale is not
\* repeated either.
C21_NoLocaleTwice ==
    LET calls == viaCaptionApi(tx.log)
    IN  \A j, k \in DOMAIN calls :
            j # k => requested(calls[j]) # requested(calls[k])

\* the text has a part that open .*? close matches
hasToken(s, open, close) == \E p \in DOMAIN s : matchEnd(s, p, open, close) # 0

\* the text is what the normalisation of lines 26-36 leaves
normalized(s) ==
    /\ ~hasToken(s, "[", "]")
    /\ ~hasToken(s, "(", ")")
    /\ \A p \in 1..Len(s) - 1 : ~(isSpace(s[p]) /\ isSpace(s[p + 1]))
    /\ s # << >> => ~isSpace(s[1]) /\ ~isSpace(s[Len(s)])

\* C23: whichever attempt succeeds, the returned text has no bracketed and
\* no parenthetical token, no run of two or more whitespace characters and
\* no whitespace at its ends, and it is the text whose length was tested.
C23_ReturnedTextNormalized ==
    (tx.pc = "done" /\ tx.result.success) =>
        /\ normalized(tx.result.transcript)
        /\ tx.result.transcript = attemptText(latest(tx.log), tx.got)
        /\ Len(tx.result.transcript) > threshold(latest(tx.log))

\* C26: a fetch through the caption API, for a language of the loop or a
\* discovered one, whose normalized text has MinLength characters or more
\* is returned as success, and only a shorter text is a failed attempt.
C26_InclusiveThreshold ==
    [][ ( /\ attempted
          /\ latest(tx'.log).method \in { "loop", "discovered" }
          /\ ~tx'.got.threw ) =>
            ( (tx'.pc = "done" /\ tx'.result.success)
                <=> Len(attemptText(latest(tx'.log), tx'.got)) >= MinLength )
      ]_vars

\* the attempt threw or gave nothing that is returned
failed(a, o) == o.threw \/ ~usable(a, o)

\* C27: an attempt that fails (the fetch or the GET threw, or the body was
\* empty or had no text) never ends the call while a later attempt is left:
\* the call goes on to another external call, and it ends without a
\* transcript only when the whole chain has been tried.
C27_FailureNeverEndsChain ==
    [][ /\ ( /\ attempted
             /\ failed(latest(tx'.log), tx'.got)
             /\ ~exhausted(tx'.log) ) =>
               /\ tx'.pc \in { "loop", "discovered", "auto", "alternative" }
               /\ tx'.result = NoResult
        /\ (attempted /\ tx'.pc = "done" /\ ~tx'.result.success) =>
               exhausted(tx'.log)
      ]_vars

\* the fetch for ko threw, the GETs of the first URLs failed, the fifth
\* threw, and the sixth gave the text the call returned
C27_Witness ==
    /\ tx.pc = "done"
    /\ tx.result.success
    /\ tx.result.method = "alternative-api"
    /\ latest(tx.log).url = AlternativeUrls
    /\ tx.before = GetThrown
    /\ Len(ofMethod(tx.log, "discovered")) >= 2
\* the step handled a parsed response of the awaited fetch
responded ==
    /\ req.pc = "fetch"
    /\ req' # req
    /\ ~(req'.pc = "done" /\ req'.result = "fetchError")

\* C25: every response with the reason quotaExceeded leaves the secret that
\* was sent marked exhausted in the manager by the time the call retries,
\* returns or throws, the response to the last permitted attempt included:
\* if a credential holds that secret, one that holds it is exhausted.
C25_EveryQuotaResponseMarks ==
    [][ ( /\ responded
          /\ req'.data.reason = "quotaExceeded"
          /\ \E i \in DOMAIN apiKeys : apiKeys[i].key = req.key ) =>
            \E i \in DOMAIN apiKeys' :
                apiKeys'[i].key = req.key /\ apiKeys'[i].quotaExceeded
      ]_vars

\* C28: within one makeYouTubeApiRequest call whose responses so far all had
\* the reason quotaExceeded, no secret is sent twice.
C28_NoSecretResent ==
    req.onlyQuota =>
        \A j, k \in DOMAIN req.sent : j # k => req.sent[j] # req.sent[k]

\* C30: in every reachable state currentKeyId is null or the id of a
\* credential that is in the map, and that credential has isActive true; it
\* does not dangle after removeKey.
C30_PointerValid ==
    currentKeyId # NoKey =>
        /\ has(apiKeys, currentKeyId)
        /\ get(apiKeys, currentKeyId).isActive

\* removeKey has deleted a credential and the pointer is on one of those
\* that were added after it
C30_Witness ==
    /\ last.op = "removeKey"
    /\ last.ret
    /\ ~has(apiKeys, last.id)
    /\ currentKeyId # NoKey
    /\ currentKeyId > last.id
    /\ has(apiKeys, currentKeyId)
    /\ get(apiKeys, currentKeyId).isActive
\* C22: the normalisation is idempotent: applied to a text that has been
\* normalized, line breaks, unbalanced and nested brackets and parentheses
\* included, it gives that text again.
C22_NormalizeIdempotent ==
    [][ norm.passes >= 1 => norm'.text = norm.text ]_vars
\* C29: a probe issued while the credential was not exhausted, whose
\* success response is handled after markKeyAsExceeded has marked that
\* credential, leaves it exhausted.
C29_ProbeKeepsMark ==
    [][ ( /\ probe.pc = "fetch"
          /\ last'.op = "testKey"
          /\ last'.outcome = "success"
          /\ has(apiKeys, probe.id)
          /\ ~probe.quotaExceeded
          /\ get(apiKeys, probe.id).quotaExceeded ) =>
            get(apiKeys', probe.id).quotaExceeded
      ]_vars
\* the step handled a response with the reason quotaExceeded to the fetch
\* the call r awaited, rNext being the call after the step
quotaAnswered(r, rNext) ==
    /\ r.pc = "fetch"
    /\ rNext # r
    /\ ~(rNext.pc = "done" /\ rNext.result = "fetchError")
    /\ rNext.data.reason = "quotaExceeded"

\* the call o has had an answer to a fetch that carried the secret
answeredFor(o, keyValue) ==
    \E j \in DOMAIN o.sent :
        o.sent[j] = keyValue /\ (j < Len(o.sent) \/ o.pc = "done")

\* what C24 says of the step in which the call r handles its response
\* while o is the other call
secondFailover(r, rNext, o) ==
    ( /\ quotaAnswered(r, rNext)
      /\ o.onlyQuota
      /\ answeredFor(o, r.key) ) =>
        /\ IF availableKeys(apiKeys') # { }
           THEN currentKeyId' = apiKeys'[earliest(apiKeys')].id
           ELSE currentKeyId' = NoKey
        /\ \A i \in DOMAIN apiKeys :
              (~apiKeys[i].quotaExceeded /\ apiKeys'[i].quotaExceeded)
                  => apiKeys[i].key = r.key

\* C24: when a call handles a quotaExceeded response to a secret for which
\* the other call has had its quotaExceeded response already, the current
\* credential after the step is the earliest-inserted credential that is
\* not exhausted (none if there is none), so no usable credential is
\* skipped, and the step marks no credential but one with the secret sent.
C24_SecondResponseNoSkip ==
    [][ /\ secondFailover(req, req', req2)
        /\ secondFailover(req2, req2', req)
      ]_vars

\* both calls sent the secret of credential 1 while it was active, both had
\* the quotaExceeded response to it and went on with the secret of
\* credential 2, the earliest that is not exhausted, and a third credential
\* is there unused
C24_Witness ==
    /\ req.pc = "fetch" /\ req2.pc = "fetch"
    /\ req.retryCount = 1 /\ req2.retryCount = 1
    /\ req.onlyQuota /\ req2.onlyQuota
    /\ req.sent[1] = req2.sent[1]
    /\ req.sent[2] = req2.sent[2]
    /\ req.sent[1] # req.sent[2]
    /\ Len(apiKeys) = 3
    /\ apiKeys[1].quotaExceeded
    /\ ~apiKeys[2].quotaExceeded /\ ~apiKeys[3].quotaExceeded
    /\ currentKeyId = apiKeys[2].id
    /\ apiKeys[2].key = req.key
=============================================================================
